---- MODULE Spec2Model ----
(***************************************************************************)
(* A model of the filing monitor: the SQLite dedupe store (storage.py),    *)
(* the filing source (edgar.py), the prefilter (filters.py), the alert     *)
(* policy (alerts.py) and the orchestrator and its driver (run_monitor.py).*)
(*                                                                         *)
(* Accession numbers are modelled as small integers; a larger number is a  *)
(* filing published later.  The processed_at / sent_at timestamps of the   *)
(* two tables are written by the code and never read by it; a table is a   *)
(* sequence of rows in insertion (rowid) order.                            *)
(***************************************************************************)
EXTENDS Integers, Sequences, FiniteSets, TLC

\* ------------------------------------------------------------------ bounds
\* Filings the source ever publishes for the first tracked entity.
MaxFilings == 3
\* Filing ids used when the store is driven directly, call by call.
MaxIds == 2
\* Filing ids used when the store is written with any values for an id.
MaxRowIds == 1
\* Largest number of single-shot attempts analyze_filing is configured for.
MaxRetries == 3
\* Largest number of lines the streamed response has.
MaxLines == 2
\* Largest number of calls of Storage.close on one store.
MaxCloses == 3
\* Largest number of summary bullets an assessment has.
MaxBullets == 6
\* Number of callers that use the store at the same time.
MaxCallers == 2

VARIABLES
    \* -- the dedupe store (storage.py)
    processed_filings,  \* table processed_filings: sequence of rows
    alerts_sent,        \* table alerts_sent: sequence of rows
    store_error,        \* the exception raised by the last store write, or "none"
    \* -- the filing source (the SEC submissions endpoint read by edgar.py)
    recent,             \* per tracked entity: accession numbers, in API order
    \* -- the driver, main() of run_monitor.py
    main_pc,            \* "stopped", "running", "sleeping", "exited", "raised",
                        \* "interrupted"
    poll_once,          \* the argument of main()
    first_pass,         \* TRUE in the for loop of lines 164-170, FALSE in the while loop
    ent,                \* index of the tracked entity being processed
    \* -- one call of process_company
    pc,                 \* position in process_company, "none" outside it
    filings,            \* the list fetch_filings returned
    idx,                \* position of the for loop in filings
    text,               \* the text extract_text returned for the current filing
    analysis,           \* the value analyze_filing returned for the current filing
    \* -- history of calls, kept for the properties only
    marked,             \* ids for which mark_processed has been called
    remarked,           \* ids for which mark_processed has been called again
    alerted,            \* ids for which mark_alert_sent has been called
    realerted,          \* ids for which mark_alert_sent has been called again
    classified,         \* ids for which analyze_filing has been called
    reclassified,       \* ids for which analyze_filing has been called again
    sent,               \* ids for which send_email has been called
    resent,             \* ids for which send_email has been called again
    send_failed,        \* ids for which send_email has raised
    attempted,          \* entities process_company was called for in this poll cycle
    check_failed,       \* this run is a single-pass run whose health check said not ok
    \* -- a function called on its own, outside the pipeline
    call,               \* the function, its arguments, its locals and its result
    \* -- the connection of the store (storage.py lines 11, 68-72)
    conn,               \* "open", "closed", or "broken": open, and its close() raises
    closes,             \* number of calls of Storage.close since main() was started
    pass_result,        \* "none", "running", "returned", "raised" or "interrupted":
                        \* the current pass
    first_seen,         \* index of the first already processed filing at the pass's start
    pass_extract,       \* ids extract_text was called for in this pass
    pass_classify,      \* ids analyze_filing was called for in this pass
    pass_send,          \* ids send_email was called for in this pass
    pass_extract_failed,   \* ids whose extract_text raised in this pass
    pass_classify_failed,  \* ids whose analyze_filing failed in this pass
    pass_send_failed,      \* ids whose send_email raised in this pass
    skipped,            \* per entity: ids whose extraction failed in its last pass
    retry_due,          \* ids of this pass's feed whose extraction failed in the pass before
    pass_outcome        \* per branch of the loop body: the ids that took it in this pass

storeVars == <<processed_filings, alerts_sent, store_error>>
storeCallVars == <<marked, remarked, alerted, realerted>>
mainVars == <<main_pc, poll_once, first_pass, ent, attempted>>
companyVars == <<pc, filings, idx, text, analysis>>
callVars == <<classified, reclassified, sent, resent, send_failed>>
healthVars == <<check_failed>>
harnessVars == <<call>>
shutdownVars == <<conn, closes>>
passCallVars == <<pass_result, first_seen, pass_extract, pass_classify, pass_send,
                  pass_extract_failed, pass_classify_failed, pass_send_failed,
                  skipped, retry_due>>
passVars == <<passCallVars, pass_outcome>>
vars == <<storeVars, storeCallVars, recent, mainVars, companyVars, callVars,
          healthVars, harnessVars, shutdownVars, passVars>>

\* ------------------------------------------------------------------- store

\* The rows of a table whose primary key is acc.
RowsFor(table, acc) ==
    { i \in 1..Len(table) : table[i].accession_number = acc }

\* INSERT into a table that has no primary key.
InsertAlways(table, row) ==
    [rows |-> Append(table, row), error |-> "none"]

\* INSERT (without OR IGNORE): a row whose key is present raises.
InsertConflictRaises(table, row) ==
    IF RowsFor(table, row.accession_number) # {}
    THEN [rows |-> table, error |-> "IntegrityError"]
    ELSE [rows |-> Append(table, row), error |-> "none"]

\* INSERT OR REPLACE: a row whose key is present is deleted and the new row
\* is inserted.
InsertOrReplace(table, row) ==
    [rows |-> Append(SelectSeq(table, LAMBDA r :
                         r.accession_number # row.accession_number), row),
     error |-> "none"]

\* INSERT OR IGNORE on a table whose primary key is accession_number: a row
\* whose key is already present is dropped, silently.
InsertOrIgnore(table, row) ==
    IF RowsFor(table, row.accession_number) # {}
    THEN [rows |-> table, error |-> "none"]
    ELSE [rows |-> Append(table, row), error |-> "none"]

\* Storage.is_processed: SELECT 1 FROM processed_filings WHERE accession_number = ?
is_processed(acc) == RowsFor(processed_filings, acc) # {}

\* Storage.has_alert: SELECT 1 FROM alerts_sent WHERE accession_number = ?
has_alert(acc) == RowsFor(alerts_sent, acc) # {}

\* Storage.mark_processed
mark_processed(acc, cik, form_type, filing_date) ==
    LET row == [accession_number |-> acc, cik |-> cik,
                form_type |-> form_type, filing_date |-> filing_date]
        res == InsertOrIgnore(processed_filings, row)
    IN  /\ processed_filings' = res.rows
        /\ store_error' = res.error
        /\ marked' = marked \cup {acc}
        /\ remarked' = IF acc \in marked THEN remarked \cup {acc} ELSE remarked

\* Storage.mark_alert_sent
mark_alert_sent(acc, impact_level, meta) ==
    LET res == InsertOrIgnore(alerts_sent,
                   [accession_number |-> acc, impact_level |-> impact_level,
                    meta |-> meta])
    IN  /\ alerts_sent' = res.rows
        /\ store_error' = res.error
        /\ alerted' = alerted \cup {acc}
        /\ realerted' = IF acc \in alerted THEN realerted \cup {acc} ELSE realerted

\* What self.conn.close() raises: nothing on an open connection, nothing on
\* a closed one (sqlite3 lets a closed connection be closed again), an error
\* on a connection that cannot be closed.
conn_close_raises(c) == IF c = "broken" THEN "sqlite3.Error" ELSE "none"

\* The connection after self.conn.close(): a call that raised left it as it was.
conn_close(c) == IF c = "open" THEN "closed" ELSE c

\* No handler: what the body raises leaves the function.
Propagated(exc) == exc

\* storage.py lines 71-72: except Exception: pass
ExceptPass(exc) == "none"

\* What Storage.close raises.
close_raises(c) == ExceptPass(conn_close_raises(c))

\* Storage.close
close ==
    /\ conn' = conn_close(conn)
    /\ closes' = closes + 1

\* ------------------------------------------------------------ configuration

\* config.TRACKED_COMPANIES, in the dict's iteration order.  The repository
\* tracks GEHC; a second entry stands for any further entry of the dict.
TRACKED_COMPANIES ==
    << [symbol |-> "GEHC", cik |-> "0001932393"],
       [symbol |-> "E2",   cik |-> "0000000002"] >>

Entities == 1..Len(TRACKED_COMPANIES)

\* A threshold one rank lower than the configured one.
AlertMinLow == "Low"

\* config.ALERT_MIN_IMPACT
ALERT_MIN_IMPACT == "Medium"

\* alerts.IMPACT_RANK
IMPACT_RANK == [l \in {"None", "Low", "Medium", "High"} |->
                   CASE l = "None" -> 0 [] l = "Low" -> 1
                     [] l = "Medium" -> 2 [] OTHER -> 3]

\* FORM_MIN_CHARS of process_company
FORM_MIN_CHARS ==
    [f \in {"4", "3", "5", "8-K", "10-Q", "10-K", "13F-HR", "S-1", "SC 13G", "SC 13D"} |->
        CASE f \in {"4", "3", "5"} -> 300
          [] f \in {"8-K", "SC 13G", "SC 13D"} -> 800
          [] f \in {"10-Q", "S-1"} -> 2000
          [] f = "10-K" -> 3000
          [] OTHER -> 1000]

\* ------------------------------------------------------------ filing source

\* The accession numbers the source may publish: 1..MaxFilings for the first
\* entity, one after the other; the single filing 0 for the second, of a
\* form the monitor does not follow.
Accessions == 0..MaxFilings

\* The form type and the filing date the submissions endpoint reports for
\* an accession number.  Two filings may share a date.
FormOf(acc) ==
    CASE acc % 4 = 0 -> "SC 13G"
      [] acc % 4 = 3 -> "4"
      [] OTHER -> "8-K"

DateOf(acc) == acc \div 2

\* filtered.sort(key=filing_date, reverse=True): a stable sort, so filings of
\* one date keep the order the endpoint gave them.
InsertByDateDesc(s, f) ==
    LET k == Cardinality({ i \in 1..Len(s) : s[i].filing_date >= f.filing_date })
    IN  SubSeq(s, 1, k) \o <<f>> \o SubSeq(s, k + 1, Len(s))

RECURSIVE SortByDateDesc(_)
SortByDateDesc(s) ==
    IF s = <<>> THEN <<>>
    ELSE InsertByDateDesc(SortByDateDesc(SubSeq(s, 1, Len(s) - 1)), s[Len(s)])

\* edgar.fetch_filings on the arrays the endpoint returned: one record per
\* accession number, the wanted forms only, newest filing date first.
fetch_filings(accs) ==
    LET all == [ i \in 1..Len(accs) |->
                   [accession_number |-> accs[i],
                    form_type |-> FormOf(accs[i]),
                    filing_date |-> DateOf(accs[i])] ]
        wanted == {"8-K", "10-Q", "10-K", "4"}
        filtered == SelectSeq(all, LAMBDA f : f.form_type \in wanted)
    IN  SortByDateDesc(filtered)

\* ------------------------------------------------- prefilter, alert policy

\* A text is its length and how it holds a phrase of BOILERPLATE_PHRASES:
\* not at all ("none"), in the lower case the list spells it in ("lower"),
\* or in another case, as in "Forward-Looking Statements" ("mixed").
Phrases == {"none", "lower", "mixed"}

\* The texts extract_text may return, of a length of at most MAX_FILING_CHARS.
Texts == { t \in [len : {0, 500, 1000}, phrase : Phrases] :
               t.phrase # "none" => t.len > 0 }
NoText == [len |-> 0, phrase |-> "none"]

\* The text is compared as it is, in the case it came in.
SameCase(t) == t

\* str.lower
lower(t) == [t EXCEPT !.phrase = IF @ = "mixed" THEN "lower" ELSE @]

\* p in s for a phrase p of BOILERPLATE_PHRASES: a substring test, which
\* tells the cases apart.
HoldsPhrase(s) == s.phrase = "lower"

\* filters.prefilter
prefilter(t, min_chars) ==
    IF t.len = 0 THEN FALSE
    ELSE IF t.len < min_chars THEN FALSE
    ELSE IF HoldsPhrase(lower(t)) THEN FALSE
    ELSE TRUE

\* FORM_MIN_CHARS.get(form, 1500)
MinCharsFor(form) ==
    IF form \in DOMAIN FORM_MIN_CHARS THEN FORM_MIN_CHARS[form] ELSE 1500

\* The dicts analyze_filing may return (json.loads of what the model wrote,
\* not validated): impact_level is one of the four levels, another string,
\* absent ("MISSING") or an unhashable JSON value such as a list
\* ("UNHASHABLE"); renderable is FALSE when summary_bullets cannot be sliced
\* or impact_reasoning is not a string, so that format_alert raises.
ImpactValues == {"None", "Low", "Medium", "High", "unknown", "MISSING", "UNHASHABLE"}
Analyses == [impact_level : ImpactValues, renderable : BOOLEAN]
NoAnalysis == [impact_level |-> "MISSING", renderable |-> TRUE]

\* A missing impact_level is taken for the highest level.
LevelOfDefaultsHigh(a) == IF a.impact_level = "MISSING" THEN "High" ELSE a.impact_level

\* analysis.get("impact_level", "None")
LevelOf(a) == IF a.impact_level = "MISSING" THEN "None" ELSE a.impact_level

\* IMPACT_RANK.get(level, default)
RankOf(level, default) ==
    IF level \in DOMAIN IMPACT_RANK THEN IMPACT_RANK[level] ELSE default

\* alerts.should_alert; it raises TypeError on an unhashable level
should_alert_raises(a) == a.impact_level = "UNHASHABLE"

\* Only a level above the minimum alerts.
should_alert_above(a) == RankOf(LevelOf(a), 0) > RankOf(ALERT_MIN_IMPACT, 2)
should_alert(a) == RankOf(LevelOf(a), 0) >= RankOf(ALERT_MIN_IMPACT, 2)

\* alerts.format_alert raises TypeError on a dict it cannot render
format_alert_raises(a) == ~a.renderable

\* ------------------------------------------------------------------ driver

\* The filing the for loop of process_company is at.
Cur == filings[idx]
CurAcc == filings[idx].accession_number

\* lines 178-184: finally closes the store; what close() raises is logged.
Finally == close

\* process_company has returned, or the handler of lines 167-170 has caught
\* what it raised: the for loop over TRACKED_COMPANIES goes on; at its end
\* main() leaves through finally (single pass) or goes to sleep.
CompanyReturns ==
    IF ent < Len(TRACKED_COMPANIES)
    THEN /\ ent' = ent + 1
         /\ attempted' = attempted \cup {ent + 1}
         /\ pc' = "fetch"
         /\ main_pc' = main_pc
         /\ UNCHANGED shutdownVars
    ELSE /\ ent' = ent
         /\ attempted' = attempted
         /\ pc' = "none"
         /\ IF first_pass /\ poll_once
            THEN main_pc' = "exited" /\ Finally
            ELSE main_pc' = "sleeping" /\ UNCHANGED shutdownVars

\* process_company has raised and nothing in main() catches it: the
\* exception leaves main() through finally.
RaisesOutOfMain ==
    /\ main_pc' = "raised"
    /\ pc' = "none"
    /\ Finally
    /\ UNCHANGED <<ent, attempted>>

\* process_company has raised.  The for loop of the first pass catches it
\* (lines 165-170); the while loop of lines 173-177 does not, so the
\* exception leaves main() through finally.
CompanyRaises ==
    IF first_pass
    THEN CompanyReturns
    ELSE /\ main_pc' = "raised"
         /\ pc' = "none"
         /\ Finally
         /\ UNCHANGED <<ent, attempted>>

\* What the properties remember of the branches the loop body took in the
\* current pass, by filing id: the prefilter accepted or rejected the text;
\* the classifier's output did not parse (unparsed) or parsed to a dict
\* without impact_level (no_level); the condition of line 112 was true
\* (alert_due), false (no_alert) or raised, as format_alert may (raised);
\* mark_alert_sent (alert_recorded) and mark_processed (marked) were called.
NoOutcome ==
    [accepted |-> {}, rejected |-> {}, unparsed |-> {}, no_level |-> {},
     alert_due |-> {}, no_alert |-> {}, raised |-> {}, alert_recorded |-> {},
     marked |-> {}]

\* The locals of the last call of process_company are gone, and with them
\* what the properties remember of that pass.
PassForgotten ==
    /\ filings' = <<>> /\ idx' = 1
    /\ pass_result' = "none" /\ first_seen' = 1
    /\ pass_extract' = {} /\ pass_classify' = {} /\ pass_send' = {}
    /\ pass_extract_failed' = {} /\ pass_classify_failed' = {} /\ pass_send_failed' = {}
    /\ retry_due' = {}
    /\ pass_outcome' = NoOutcome

\* main(poll_once) is started: a new process, or a new call after main() ended.
\* Lines 143-161: check_ollama catches what its two requests raise and
\* returns its report; main() logs it and goes on whatever it says.
MainStart(po) ==
    /\ main_pc \in {"stopped", "exited", "raised", "interrupted"}
    /\ main_pc' = "running"
    /\ poll_once' = po
    /\ \E ok \in BOOLEAN : check_failed' = (po /\ ~ok)
    /\ first_pass' = TRUE
    /\ ent' = 1
    /\ attempted' = {1}
    /\ pc' = "fetch"
    /\ PassForgotten
    /\ conn' = "open" /\ closes' = 0
    /\ UNCHANGED call
    /\ UNCHANGED <<storeVars, storeCallVars, recent, text, analysis, callVars, skipped>>

\* sleep(1800) of the while loop is over: the next poll cycle begins.
Wake ==
    /\ main_pc = "sleeping"
    /\ main_pc' = "running"
    /\ first_pass' = FALSE
    /\ ent' = 1
    /\ attempted' = {1}
    /\ pc' = "fetch"
    /\ PassForgotten
    /\ UNCHANGED <<check_failed, call, conn, closes>>
    /\ UNCHANGED <<storeVars, storeCallVars, recent, poll_once, text, analysis,
                   callVars, skipped>>

\* The source publishes the next filing of the first entity; the endpoint
\* lists it ahead of the older ones.  A pass reads the feed once, at line 31,
\* so a filing published while the loop runs is one published before the
\* next fetch: publication is taken outside the loop.
Publish ==
    /\ pc \in {"none", "fetch"}
    /\ Len(recent[1]) < MaxFilings
    /\ recent' = [recent EXCEPT ![1] = <<Len(@) + 1>> \o @]
    /\ UNCHANGED <<check_failed, call, conn, closes>>
    /\ UNCHANGED <<storeVars, storeCallVars, mainVars, companyVars, callVars, passVars>>

\* -------------------------------------------------------- process_company

AccsOf(fs) == { fs[i].accession_number : i \in 1..Len(fs) }

\* Index of the first filing of fs that has a ProcessedRecord, Len(fs) + 1 if none.
FirstProcessed(fs) ==
    LET hit == { i \in 1..Len(fs) : is_processed(fs[i].accession_number) }
    IN  IF hit = {} THEN Len(fs) + 1
        ELSE CHOOSE i \in hit : \A j \in hit : i <= j

MarkCurProcessed ==
    mark_processed(CurAcc, TRACKED_COMPANIES[ent].cik, Cur.form_type, Cur.filing_date)

\* The pass is over (the loop ended, broke, or an exception left it).
PassEnds(result) ==
    /\ pass_result' = result
    /\ skipped' = [skipped EXCEPT ![ent] = pass_extract_failed]

\* line 31: fetch_filings raises (network or HTTP error, malformed JSON).
FetchFilingsRaises ==
    /\ main_pc = "running" /\ pc = "fetch"
    /\ CompanyRaises
    /\ PassForgotten
    /\ UNCHANGED <<check_failed, call>>
    /\ UNCHANGED <<storeVars, storeCallVars, recent, poll_once, first_pass, text,
                   analysis, callVars, skipped>>

\* line 31: fetch_filings returns the feed; the for loop starts.
FetchFilingsReturns ==
    /\ main_pc = "running" /\ pc = "fetch"
    /\ filings' = fetch_filings(recent[ent])
    /\ idx' = 1
    /\ pc' = "loop"
    /\ pass_result' = "running"
    /\ first_seen' = FirstProcessed(filings')
    /\ pass_extract' = {} /\ pass_classify' = {} /\ pass_send' = {}
    /\ pass_extract_failed' = {} /\ pass_classify_failed' = {} /\ pass_send_failed' = {}
    /\ retry_due' = skipped[ent] \cap AccsOf(filings')
    /\ pass_outcome' = NoOutcome
    /\ UNCHANGED <<check_failed, call, conn, closes>>
    /\ UNCHANGED <<storeVars, storeCallVars, recent, mainVars, text, analysis,
                   callVars, skipped>>

\* line 34: the list is exhausted; process_company returns.
LoopEnd ==
    /\ main_pc = "running" /\ pc = "loop"
    /\ idx > Len(filings)
    /\ CompanyReturns
    /\ PassEnds("returned")
    /\ UNCHANGED <<check_failed, call>>
    /\ UNCHANGED <<storeVars, storeCallVars, recent, poll_once, first_pass, filings,
                   idx, text, analysis, callVars, first_seen, pass_extract,
                   pass_classify, pass_send, pass_extract_failed,
                   pass_classify_failed, pass_send_failed, retry_due, pass_outcome>>

\* lines 36-40: the filing is already processed; break.
EarlyStop ==
    /\ main_pc = "running" /\ pc = "loop"
    /\ idx <= Len(filings)
    /\ is_processed(CurAcc)
    /\ CompanyReturns
    /\ PassEnds("returned")
    /\ UNCHANGED <<check_failed, call>>
    /\ UNCHANGED <<storeVars, storeCallVars, recent, poll_once, first_pass, filings,
                   idx, text, analysis, callVars, first_seen, pass_extract,
                   pass_classify, pass_send, pass_extract_failed,
                   pass_classify_failed, pass_send_failed, retry_due, pass_outcome>>

\* The handling of a filing starts whether it is processed or not.
LoopNextUnguarded ==
    /\ main_pc = "running" /\ pc = "loop"
    /\ idx <= Len(filings)
    /\ pc' = "extract"
    /\ UNCHANGED <<check_failed, call, conn, closes>>
    /\ UNCHANGED <<storeVars, storeCallVars, recent, mainVars, filings, idx, text,
                   analysis, callVars, passVars>>

\* lines 36, 42: the filing is not processed yet; its handling starts.
LoopNext ==
    /\ main_pc = "running" /\ pc = "loop"
    /\ idx <= Len(filings)
    /\ ~is_processed(CurAcc)
    /\ pc' = "extract"
    /\ UNCHANGED <<check_failed, call, conn, closes>>
    /\ UNCHANGED <<storeVars, storeCallVars, recent, mainVars, filings, idx, text,
                   analysis, callVars, passVars>>

\* extract_text raises and the loop takes up the same filing again.
ExtractRaisesAndRetries ==
    /\ main_pc = "running" /\ pc = "extract"
    /\ pass_extract' = pass_extract \cup {CurAcc}
    /\ pass_extract_failed' = pass_extract_failed \cup {CurAcc}
    /\ pc' = "loop"
    /\ UNCHANGED <<check_failed, call, conn, closes>>
    /\ UNCHANGED <<storeVars, storeCallVars, recent, mainVars, filings, idx, text,
                   analysis, callVars, pass_result, first_seen, pass_classify,
                   pass_send, pass_classify_failed, pass_send_failed, skipped,
                   retry_due, pass_outcome>>

\* lines 45-50: extract_text raises; continue, nothing is recorded.
ExtractRaises ==
    /\ main_pc = "running" /\ pc = "extract"
    /\ pass_extract' = pass_extract \cup {CurAcc}
    /\ pass_extract_failed' = pass_extract_failed \cup {CurAcc}
    /\ idx' = idx + 1
    /\ pc' = "loop"
    /\ UNCHANGED <<check_failed, call, conn, closes>>
    /\ UNCHANGED <<storeVars, storeCallVars, recent, mainVars, filings, text,
                   analysis, callVars, pass_result, first_seen, pass_classify,
                   pass_send, pass_classify_failed, pass_send_failed, skipped,
                   retry_due, pass_outcome>>

\* lines 45-46: extract_text returns the text.
ExtractReturns(t) ==
    /\ main_pc = "running" /\ pc = "extract"
    /\ pass_extract' = pass_extract \cup {CurAcc}
    /\ text' = t
    /\ pc' = "prefilter"
    /\ UNCHANGED <<check_failed, call, conn, closes>>
    /\ UNCHANGED <<storeVars, storeCallVars, recent, mainVars, filings, idx,
                   analysis, callVars, pass_result, first_seen, pass_classify,
                   pass_send, pass_extract_failed, pass_classify_failed,
                   pass_send_failed, skipped, retry_due, pass_outcome>>

\* lines 66-93: the threshold of the form is looked up (the raw response is
\* saved for debugging, errors ignored); the prefilter rejects the text:
\* mark_processed, continue.
PrefilterRejects ==
    /\ main_pc = "running" /\ pc = "prefilter"
    /\ ~prefilter(text, MinCharsFor(Cur.form_type))
    /\ MarkCurProcessed
    /\ idx' = idx + 1
    /\ pc' = "loop"
    /\ text' = NoText
    /\ pass_outcome' = [pass_outcome EXCEPT !.rejected = @ \cup {CurAcc},
                                            !.marked = @ \cup {CurAcc}]
    /\ UNCHANGED <<check_failed, call, conn, closes>>
    /\ UNCHANGED <<alerts_sent, alerted, realerted, recent, mainVars, filings,
                   analysis, callVars, passCallVars>>

\* lines 66-96: the prefilter accepts the text.
PrefilterAccepts ==
    /\ main_pc = "running" /\ pc = "prefilter"
    /\ prefilter(text, MinCharsFor(Cur.form_type))
    /\ pc' = "classify"
    /\ pass_outcome' = [pass_outcome EXCEPT !.accepted = @ \cup {CurAcc}]
    /\ UNCHANGED <<check_failed, call, conn, closes>>
    /\ UNCHANGED <<storeVars, storeCallVars, recent, mainVars, filings, idx, text,
                   analysis, callVars, passCallVars>>

ClassifierCalled ==
    /\ classified' = classified \cup {CurAcc}
    /\ reclassified' = IF CurAcc \in classified THEN reclassified \cup {CurAcc}
                       ELSE reclassified
    /\ pass_classify' = pass_classify \cup {CurAcc}

\* The failure of analyze_filing is not caught: it leaves process_company.
ClassifyFailsUncaught ==
    /\ main_pc = "running" /\ pc = "classify"
    /\ ClassifierCalled
    /\ pass_classify_failed' = pass_classify_failed \cup {CurAcc}
    /\ CompanyRaises
    /\ PassEnds("raised")
    /\ text' = NoText
    /\ UNCHANGED <<check_failed, call>>
    /\ UNCHANGED <<storeVars, storeCallVars, recent, poll_once, first_pass, filings,
                   idx, analysis, sent, resent, send_failed, first_seen,
                   pass_extract, pass_send, pass_extract_failed, pass_send_failed,
                   retry_due, pass_outcome>>

\* The ways the try of lines 99-104 fails: analyze_filing raises because no
\* request got an answer (llm.py line 221), because what the model wrote is
\* not JSON (llm.py lines 129, 211), or it returns JSON that is no object, so
\* that analysis.get raises at line 103.
ClassifyFailures == {"unreachable", "not_json", "not_a_dict"}

\* lines 99-110: analyze_filing raises, or returns a value that is no dict so
\* that analysis.get raises inside the try: mark_processed, continue.
ClassifyFails ==
    /\ main_pc = "running" /\ pc = "classify"
    /\ ClassifierCalled
    /\ pass_classify_failed' = pass_classify_failed \cup {CurAcc}
    /\ MarkCurProcessed
    /\ idx' = idx + 1
    /\ pc' = "loop"
    /\ text' = NoText
    /\ \E cause \in ClassifyFailures :
           pass_outcome' = [pass_outcome EXCEPT
               !.unparsed = IF cause = "unreachable" THEN @ ELSE @ \cup {CurAcc},
               !.marked = @ \cup {CurAcc}]
    /\ UNCHANGED <<check_failed, call, conn, closes>>
    /\ UNCHANGED <<alerts_sent, alerted, realerted, recent, mainVars, filings,
                   analysis, sent, resent, send_failed, pass_result, first_seen,
                   pass_extract, pass_send, pass_extract_failed, pass_send_failed,
                   skipped, retry_due>>

\* lines 99-104: analyze_filing returns a dict.
ClassifyReturns(a) ==
    /\ main_pc = "running" /\ pc = "classify"
    /\ ClassifierCalled
    /\ analysis' = a
    /\ text' = NoText
    /\ pc' = "decide"
    /\ pass_outcome' = [pass_outcome EXCEPT
           !.no_level = IF a.impact_level = "MISSING" THEN @ \cup {CurAcc} ELSE @]
    /\ UNCHANGED <<check_failed, call, conn, closes>>
    /\ UNCHANGED <<storeVars, storeCallVars, recent, mainVars, filings, idx,
                   sent, resent, send_failed, pass_result, first_seen,
                   pass_extract, pass_send, pass_extract_failed,
                   pass_classify_failed, pass_send_failed, skipped, retry_due>>

\* The alert branch is taken for every filing that has no AlertRecord,
\* whatever its assessment says.
AlertUnlessRecorded == ~has_alert(CurAcc)

\* line 112: the condition that guards the alert branch.
AlertDue == should_alert(analysis) /\ ~has_alert(CurAcc)

\* lines 112-114: should_alert or format_alert raises; nothing catches it
\* inside process_company.
AlertPolicyRaises ==
    /\ main_pc = "running" /\ pc = "decide"
    /\ \/ should_alert_raises(analysis)
       \/ AlertDue /\ format_alert_raises(analysis)
    /\ CompanyRaises
    /\ PassEnds("raised")
    /\ analysis' = NoAnalysis
    /\ pass_outcome' = [pass_outcome EXCEPT !.raised = @ \cup {CurAcc}]
    /\ UNCHANGED <<check_failed, call>>
    /\ UNCHANGED <<storeVars, storeCallVars, recent, poll_once, first_pass,
                   filings, idx, text, callVars, first_seen, pass_extract,
                   pass_classify, pass_send, pass_extract_failed,
                   pass_classify_failed, pass_send_failed, retry_due>>

\* lines 112-116: an alert is due and rendered.
AlertTriggered ==
    /\ main_pc = "running" /\ pc = "decide"
    /\ ~should_alert_raises(analysis)
    /\ AlertDue /\ ~format_alert_raises(analysis)
    /\ pc' = "send"
    /\ pass_outcome' = [pass_outcome EXCEPT
           !.alert_due = IF should_alert(analysis) /\ ~has_alert(CurAcc)
                         THEN @ \cup {CurAcc} ELSE @]
    /\ UNCHANGED <<check_failed, call, conn, closes>>
    /\ UNCHANGED <<storeVars, storeCallVars, recent, mainVars, filings, idx, text,
                   analysis, callVars, passCallVars>>

\* lines 112, 124-126: no alert.
NoAlert ==
    /\ main_pc = "running" /\ pc = "decide"
    /\ ~should_alert_raises(analysis)
    /\ ~AlertDue
    /\ pc' = "mark"
    /\ analysis' = NoAnalysis
    /\ pass_outcome' = [pass_outcome EXCEPT !.no_alert = @ \cup {CurAcc}]
    /\ UNCHANGED <<check_failed, call, conn, closes>>
    /\ UNCHANGED <<storeVars, storeCallVars, recent, mainVars, filings, idx, text,
                   callVars, passCallVars>>

NotifierCalled ==
    /\ sent' = sent \cup {CurAcc}
    /\ resent' = IF CurAcc \in sent THEN resent \cup {CurAcc} ELSE resent
    /\ pass_send' = pass_send \cup {CurAcc}

\* The failure of send_email is raised again: it leaves process_company.
SendRaisesUncaught ==
    /\ main_pc = "running" /\ pc = "send"
    /\ NotifierCalled
    /\ send_failed' = send_failed \cup {CurAcc}
    /\ pass_send_failed' = pass_send_failed \cup {CurAcc}
    /\ CompanyRaises
    /\ PassEnds("raised")
    /\ analysis' = NoAnalysis
    /\ UNCHANGED <<check_failed, call>>
    /\ UNCHANGED <<storeVars, storeCallVars, recent, poll_once, first_pass, filings,
                   idx, text, classified, reclassified, first_seen, pass_extract,
                   pass_classify, pass_extract_failed, pass_classify_failed,
                   retry_due, pass_outcome>>

\* lines 115-123: send_email raises; the handler logs it.
SendRaises ==
    /\ main_pc = "running" /\ pc = "send"
    /\ NotifierCalled
    /\ send_failed' = send_failed \cup {CurAcc}
    /\ pass_send_failed' = pass_send_failed \cup {CurAcc}
    /\ pc' = "mark"
    /\ analysis' = NoAnalysis
    /\ UNCHANGED <<check_failed, call, conn, closes>>
    /\ UNCHANGED <<storeVars, storeCallVars, recent, mainVars, filings, idx, text,
                   classified, reclassified, pass_result, first_seen,
                   pass_extract, pass_classify, pass_extract_failed,
                   pass_classify_failed, skipped, retry_due, pass_outcome>>

\* line 117: send_email returns.
SendReturns ==
    /\ main_pc = "running" /\ pc = "send"
    /\ NotifierCalled
    /\ pc' = "mark_alert"
    /\ UNCHANGED <<check_failed, call, conn, closes>>
    /\ UNCHANGED <<storeVars, storeCallVars, recent, mainVars, filings, idx, text,
                   analysis, classified, reclassified, send_failed, pass_result,
                   first_seen, pass_extract, pass_classify, pass_extract_failed,
                   pass_classify_failed, pass_send_failed, skipped, retry_due,
                   pass_outcome>>

\* line 118: mark_alert_sent.
MarkAlertSent ==
    /\ main_pc = "running" /\ pc = "mark_alert"
    /\ mark_alert_sent(CurAcc, LevelOf(analysis), TRACKED_COMPANIES[ent].symbol)
    /\ pc' = "mark"
    /\ analysis' = NoAnalysis
    /\ pass_outcome' = [pass_outcome EXCEPT !.alert_recorded = @ \cup {CurAcc}]
    /\ UNCHANGED <<check_failed, call, conn, closes>>
    /\ UNCHANGED <<processed_filings, marked, remarked, recent, mainVars, filings,
                   idx, text, callVars, passCallVars>>

\* The loop goes to the next filing without mark_processed when the alert
\* of the filing has been recorded.
MarkProcessedUnlessAlerted ==
    /\ main_pc = "running" /\ pc = "mark"
    /\ IF has_alert(CurAcc)
       THEN UNCHANGED <<processed_filings, store_error, marked, remarked>>
       ELSE MarkCurProcessed
    /\ idx' = idx + 1
    /\ pc' = "loop"
    /\ pass_outcome' = [pass_outcome EXCEPT !.marked = @ \cup {CurAcc}]
    /\ UNCHANGED <<check_failed, call, conn, closes>>
    /\ UNCHANGED <<alerts_sent, alerted, realerted, recent, mainVars, filings,
                   text, analysis, callVars, passCallVars>>

\* lines 128-130: mark_processed; the loop goes to the next filing.
MarkProcessed ==
    /\ main_pc = "running" /\ pc = "mark"
    /\ MarkCurProcessed
    /\ idx' = idx + 1
    /\ pc' = "loop"
    /\ pass_outcome' = [pass_outcome EXCEPT !.marked = @ \cup {CurAcc}]
    /\ UNCHANGED <<check_failed, call, conn, closes>>
    /\ UNCHANGED <<alerts_sent, alerted, realerted, recent, mainVars, filings,
                   text, analysis, callVars, passCallVars>>

\* ---------------------------------------------------------- specifications

\* No function is being called on its own.
NoCall == [fn |-> "none"]

\* The store is empty, main() has not been started, nothing has been called.
Idle ==
    /\ processed_filings = <<>> /\ alerts_sent = <<>> /\ store_error = "none"
    /\ main_pc = "stopped" /\ poll_once = TRUE /\ first_pass = TRUE /\ ent = 1
    /\ check_failed = FALSE
    /\ attempted = {}
    /\ pc = "none" /\ filings = <<>> /\ idx = 1
    /\ text = NoText /\ analysis = NoAnalysis
    /\ marked = {} /\ remarked = {} /\ alerted = {} /\ realerted = {}
    /\ classified = {} /\ reclassified = {} /\ sent = {} /\ resent = {}
    /\ send_failed = {}
    /\ pass_result = "none" /\ first_seen = 1
    /\ pass_extract = {} /\ pass_classify = {} /\ pass_send = {}
    /\ pass_extract_failed = {} /\ pass_classify_failed = {} /\ pass_send_failed = {}
    /\ skipped = [e \in Entities |-> {}]
    /\ retry_due = {}
    /\ pass_outcome = NoOutcome

\* storage.py line 74: the module opened the store when it was imported.
Opened == conn = "open" /\ closes = 0

\* The endpoint lists nothing yet for the first entity.
NothingPublished == [e \in Entities |-> IF e = 1 THEN <<>> ELSE <<0>>]

Init ==
    /\ Idle
    /\ Opened
    /\ recent = NothingPublished
    /\ call = NoCall

Next ==
    \/ \E po \in BOOLEAN : MainStart(po)
    \/ Wake
    \/ Publish
    \/ FetchFilingsRaises
    \/ FetchFilingsReturns
    \/ LoopEnd
    \/ EarlyStop
    \/ LoopNext
    \/ ExtractRaises
    \/ \E t \in Texts : ExtractReturns(t)
    \/ PrefilterRejects
    \/ PrefilterAccepts
    \/ ClassifyFails
    \/ \E a \in Analyses : ClassifyReturns(a)
    \/ AlertPolicyRaises
    \/ AlertTriggered
    \/ NoAlert
    \/ SendRaises
    \/ SendReturns
    \/ MarkAlertSent
    \/ MarkProcessed

\* Repeated runs of the monitor against a source that keeps publishing.
Spec == Init /\ [][Next]_vars

\* ------------------------------------------- the store, driven call by call

StoreIds == 1..MaxIds

\* A caller calls storage.mark_processed with arguments of its choice.
CallMarkProcessed(acc, cik) ==
    /\ mark_processed(acc, cik, FormOf(acc), DateOf(acc))
    /\ UNCHANGED <<check_failed, call, conn, closes>>
    /\ UNCHANGED <<alerts_sent, alerted, realerted, recent, mainVars, companyVars,
                   callVars, passVars>>

\* A caller calls storage.mark_alert_sent with arguments of its choice.
CallMarkAlertSent(acc, impact_level) ==
    /\ mark_alert_sent(acc, impact_level, TRACKED_COMPANIES[1].symbol)
    /\ UNCHANGED <<check_failed, call, conn, closes>>
    /\ UNCHANGED <<processed_filings, marked, remarked, recent, mainVars,
                   companyVars, callVars, passVars>>

StoreNext ==
    \/ \E acc \in StoreIds, e \in Entities :
           CallMarkProcessed(acc, TRACKED_COMPANIES[e].cik)
    \/ \E acc \in StoreIds, l \in {"Medium", "High"} :
           CallMarkAlertSent(acc, l)

\* Any sequence of writes to the store.
SpecStore == Init /\ [][StoreNext]_vars

\* ------------------------------ the store, written with any values for an id

RowIds == 1..MaxRowIds

\* The values a caller may pass for one filing id: either entity's key, two
\* form types, two filing dates.
RowValues == [cik : { TRACKED_COMPANIES[e].cik : e \in Entities },
              form_type : {"8-K", "10-Q"}, filing_date : {0, 1}]

\* A caller calls storage.mark_processed; the call is remembered.
WriteProcessed(acc, v) ==
    /\ mark_processed(acc, v.cik, v.form_type, v.filing_date)
    /\ call' = [fn |-> "mark_processed",
                row |-> [accession_number |-> acc, cik |-> v.cik,
                         form_type |-> v.form_type, filing_date |-> v.filing_date]]
    /\ UNCHANGED <<alerts_sent, alerted, realerted, recent, mainVars, companyVars,
                   callVars, healthVars, shutdownVars, passVars>>

\* A caller calls storage.mark_alert_sent; the call is remembered.
WriteAlertSent(acc, impact_level) ==
    /\ mark_alert_sent(acc, impact_level, TRACKED_COMPANIES[1].symbol)
    /\ call' = [fn |-> "mark_alert_sent",
                row |-> [accession_number |-> acc, impact_level |-> impact_level,
                         meta |-> TRACKED_COMPANIES[1].symbol]]
    /\ UNCHANGED <<processed_filings, marked, remarked, recent, mainVars,
                   companyVars, callVars, healthVars, shutdownVars, passVars>>

RowsNext ==
    \/ \E acc \in RowIds, v \in RowValues : WriteProcessed(acc, v)
    \/ \E acc \in RowIds, l \in {"Medium", "High"} : WriteAlertSent(acc, l)

SpecRows == Init /\ [][RowsNext]_vars

\* ------------------------------------ the policy functions, called directly

pipelineVars == <<storeVars, storeCallVars, recent, mainVars, companyVars, callVars,
                  healthVars, shutdownVars, passVars>>

\* The values f.get("form_type") may have: a form name, "" for an absent or
\* null one, written in upper case or with lower-case letters, with or
\* without blanks around it.
FormNames == DOMAIN FORM_MIN_CHARS \cup {"", "DEF 14A"}
Lettered == FormNames \ {"", "3", "4", "5"}
RawForms == { r \in [name : FormNames, lowered : BOOLEAN, padded : BOOLEAN] :
                  r.lowered => r.name \in Lettered }

\* The form is looked up as it came.
AsGiven(r) == r

\* (f.get("form_type") or "").upper().strip()
upper_strip(r) == [r EXCEPT !.lowered = FALSE, !.padded = FALSE]

\* The key of FORM_MIN_CHARS the string equals, if it equals one: the keys
\* are spelled in upper case, without blanks.
KeyOf(r) == IF r.lowered \/ r.padded THEN "(no key)" ELSE r.name

\* lines 66-67: form, min_chars
min_chars_of(r) == MinCharsFor(KeyOf(upper_strip(r)))

\* The lengths at, just below and just above every threshold, and 0.
Thresholds == { FORM_MIN_CHARS[f] : f \in DOMAIN FORM_MIN_CHARS } \cup {MinCharsFor("")}
PolicyLens == {0} \cup UNION { {m - 1, m, m + 1} : m \in Thresholds }
PolicyTexts == { t \in [len : PolicyLens, phrase : Phrases] :
                     t.phrase # "none" => t.len > 0 }

\* The calls made: should_alert on an assessment, or lines 66-89 (the lookup
\* of the threshold, then prefilter) on a text and a form.
PolicyCalls ==
    { [fn |-> "should_alert", analysis |-> a, result |-> "pending"] : a \in Analyses }
    \cup { [fn |-> "prefilter", text |-> t, form |-> r, result |-> "pending"] :
              t \in PolicyTexts, r \in RawForms }

PolicyInit ==
    /\ Idle
    /\ Opened
    /\ recent = NothingPublished
    /\ call \in PolicyCalls

ShouldAlertCalled ==
    /\ call.fn = "should_alert" /\ call.result = "pending"
    /\ call' = [call EXCEPT !.result =
                    IF should_alert_raises(call.analysis) THEN "raised"
                    ELSE IF should_alert(call.analysis) THEN "true" ELSE "false"]
    /\ UNCHANGED pipelineVars

PrefilterCalled ==
    /\ call.fn = "prefilter" /\ call.result = "pending"
    /\ call' = [call EXCEPT !.result =
                    IF prefilter(call.text, min_chars_of(call.form))
                    THEN "true" ELSE "false"]
    /\ UNCHANGED pipelineVars

PolicyNext == ShouldAlertCalled \/ PrefilterCalled

SpecPolicy == PolicyInit /\ [][PolicyNext]_vars

\* ------------------------------------------------- Storage.close, any time

\* A store that holds anything written for one filing id; its connection is
\* open, and close() on it may be one that raises.
CloseInit ==
    /\ Idle
    /\ conn \in {"open", "broken"} /\ closes = 0
    /\ recent = NothingPublished
    /\ call = NoCall

\* A caller calls Storage.close; the call is remembered.
CallClose ==
    /\ closes < MaxCloses
    /\ close
    /\ call' = [fn |-> "close", raised |-> close_raises(conn)]
    /\ UNCHANGED <<storeVars, storeCallVars, recent, mainVars, companyVars,
                   callVars, healthVars, passVars>>

CloseNext ==
    \/ CallClose
    \/ conn # "closed" /\ \E v \in RowValues : WriteProcessed(1, v)
    \/ conn # "closed" /\ \E l \in {"Medium", "High"} : WriteAlertSent(1, l)

SpecClose == CloseInit /\ [][CloseNext]_vars

\* ------------------------------- two callers of the store, for one filing

\* The callers that use the module's one Storage object (storage.py line 74;
\* its connection is opened with check_same_thread=False) for filing 1.
Callers == 1..MaxCallers

\* No caller has begun.  call.at is each caller's position in
\* process_company; call.saw_processed and call.saw_alert are what its
\* is_processed and has_alert reads returned; call.alerts is whether
\* should_alert is true of its analysis; call.called lists the calls issued,
\* in order; call.error is what each caller's store calls raised;
\* call.in_transaction is whether the connection has statements that are
\* not committed, call.committed the tables as of the last commit.
RaceInit ==
    /\ Idle
    /\ Opened
    /\ recent = NothingPublished
    /\ call = [fn |-> "race",
               at |-> [c \in Callers |-> "is_processed"],
               saw_processed |-> [c \in Callers |-> FALSE],
               saw_alert |-> [c \in Callers |-> FALSE],
               alerts |-> [c \in Callers |-> FALSE],
               called |-> <<>>,
               error |-> [c \in Callers |-> "none"],
               in_transaction |-> FALSE,
               committed |-> [processed_filings |-> <<>>, alerts_sent |-> <<>>]]

RaceRest == <<recent, mainVars, companyVars, callVars, healthVars, shutdownVars, passVars>>

\* Line 36: if storage.is_processed(acc): break.  Otherwise the filing is
\* analysed, and should_alert is true or false of the analysis.
RaceIsProcessed(c) ==
    /\ call.at[c] = "is_processed"
    /\ \E al \in BOOLEAN :
         call' = [call EXCEPT
                    !.saw_processed[c] = is_processed(1),
                    !.alerts[c] = al /\ ~is_processed(1),
                    !.at[c] = IF is_processed(1) THEN "done"
                              ELSE IF al THEN "has_alert" ELSE "mark_processed"]
    /\ UNCHANGED <<storeVars, storeCallVars>> /\ UNCHANGED RaceRest

\* Line 112: ... and not storage.has_alert(acc)
RaceHasAlert(c) ==
    /\ call.at[c] = "has_alert"
    /\ call' = [call EXCEPT
                  !.saw_alert[c] = has_alert(1),
                  !.at[c] = IF has_alert(1) THEN "mark_processed"
                            ELSE "mark_alert_sent"]
    /\ UNCHANGED <<storeVars, storeCallVars>> /\ UNCHANGED RaceRest

\* Line 118, storage.py lines 61-65: the INSERT of mark_alert_sent is executed
\* on the shared connection, whose transaction it joins or begins.
RaceMarkAlertSent(c) ==
    /\ call.at[c] = "mark_alert_sent"
    /\ mark_alert_sent(1, IF c = 1 THEN "High" ELSE "Medium", TRACKED_COMPANIES[1].symbol)
    /\ call' = [call EXCEPT
                  !.at[c] = "commit_alert",
                  !.called = Append(@, [fn |-> "mark_alert_sent", by |-> c]),
                  !.error[c] = IF @ = "none" THEN store_error' ELSE @,
                  !.in_transaction = TRUE]
    /\ UNCHANGED <<processed_filings, marked, remarked>> /\ UNCHANGED RaceRest

\* An INSERT into a table without the primary key, made because the
\* caller's own is_processed read found no row.
RaceMarkProcessedAsRead(c) ==
    /\ call.at[c] = "mark_processed"
    /\ processed_filings' = Append(processed_filings,
           [accession_number |-> 1, cik |-> TRACKED_COMPANIES[1].cik,
            form_type |-> "8-K", filing_date |-> c])
    /\ store_error' = "none"
    /\ marked' = marked \cup {1}
    /\ remarked' = IF 1 \in marked THEN remarked \cup {1} ELSE remarked
    /\ call' = [call EXCEPT
                  !.at[c] = "commit_processed",
                  !.called = Append(@, [fn |-> "mark_processed", by |-> c]),
                  !.in_transaction = TRUE]
    /\ UNCHANGED <<alerts_sent, alerted, realerted>> /\ UNCHANGED RaceRest

\* Line 130, storage.py lines 48-52: the INSERT of mark_processed is executed.
RaceMarkProcessed(c) ==
    /\ call.at[c] = "mark_processed"
    /\ mark_processed(1, TRACKED_COMPANIES[1].cik, "8-K", c)
    /\ call' = [call EXCEPT
                  !.at[c] = "commit_processed",
                  !.called = Append(@, [fn |-> "mark_processed", by |-> c]),
                  !.error[c] = IF @ = "none" THEN store_error' ELSE @,
                  !.in_transaction = TRUE]
    /\ UNCHANGED <<alerts_sent, alerted, realerted>> /\ UNCHANGED RaceRest

\* storage.py lines 53 and 66: self.conn.commit() commits whatever the
\* connection's transaction holds, this caller's statements and the other's.
RaceCommit(c) ==
    /\ call.at[c] \in {"commit_alert", "commit_processed"}
    /\ call' = [call EXCEPT
                  !.at[c] = IF @ = "commit_alert" THEN "mark_processed" ELSE "done",
                  !.in_transaction = FALSE,
                  !.committed = [processed_filings |-> processed_filings,
                                 alerts_sent |-> alerts_sent]]
    /\ UNCHANGED <<storeVars, storeCallVars>> /\ UNCHANGED RaceRest

RaceNext ==
    \E c \in Callers :
        \/ RaceIsProcessed(c)
        \/ RaceHasAlert(c)
        \/ RaceMarkAlertSent(c)
        \/ RaceMarkProcessed(c)
        \/ RaceCommit(c)

SpecRace == RaceInit /\ [][RaceNext]_vars

\* ------------------------------------------------ alerts.format_alert alone

\* The summary_bullets of an assessment: a list of up to MaxBullets distinct
\* bullets ("1", "2", ...), in rising or in falling order; or the key is
\* absent; or its value is null.
BulletLists ==
    { [i \in 1..n |-> ToString(i)] : n \in 0..MaxBullets }
    \cup { [i \in 1..n |-> ToString(n + 1 - i)] : n \in 2..MaxBullets }
BulletValues ==
    [kind : {"list"}, items : BulletLists]
    \cup { [kind |-> k, items |-> <<>>] : k \in {"MISSING", "NULL"} }

\* The assessments format_alert is called with: any field may be absent;
\* summary_bullets and impact_reasoning may be null.
Renderings ==
    [event_type : {"MISSING", "Earnings"},
     impact_level : {"MISSING", "High", "Medium"},
     summary_bullets : BulletValues,
     impact_reasoning : {"MISSING", "NULL", "because"}]

\* analysis.get(field, default)
Get(a, field, default) == IF a[field] = "MISSING" THEN default ELSE a[field]

\* Every item of the list.
AllOf(s) == s

\* s[:5]
first5(s) == SubSeq(s, 1, IF Len(s) < 5 THEN Len(s) ELSE 5)

\* lines 17 and 21-22: slicing null and joining a line that is null raise
\* TypeError.
unrenderable(a) == a.summary_bullets.kind = "NULL" \/ a.impact_reasoning = "NULL"

\* analysis.get("summary_bullets", [])
bullets_of(a) == a.summary_bullets.items

\* lines 11-23: the subject and the lines of the body, in order; each line
\* is its fixed text followed by the value put into it.
format_alert(symbol, filing, a) ==
    [raised |-> "none",
     subject |-> <<"[Market Alert] ", symbol, Get(a, "impact_level", "Unknown"),
                   " Impact ", filing.form_type>>,
     body |-> << <<"Event: ", Get(a, "event_type", "Other")>>,
                 <<"Impact: ", Get(a, "impact_level", "Unknown")>>,
                 <<"">>,
                 <<"Summary:">> >>
              \o [i \in 1..Len(first5(bullets_of(a))) |->
                     <<"- ", first5(bullets_of(a))[i]>>]
              \o << <<"">>,
                    <<"Reasoning:">>,
                    <<Get(a, "impact_reasoning", "")>> >>]

\* format_alert is about to be called, twice, with the same arguments.
FormatCalls ==
    { [fn |-> "format_alert", symbol |-> TRACKED_COMPANIES[e].symbol,
       filing |-> [accession_number |-> 1, form_type |-> FormOf(1)],
       analysis |-> a, results |-> <<>>] :
          e \in Entities, a \in Renderings }

FormatInit ==
    /\ Idle
    /\ Opened
    /\ recent = NothingPublished
    /\ call \in FormatCalls

FormatAlertCalled ==
    /\ call.fn = "format_alert" /\ Len(call.results) < 2
    /\ call' = [call EXCEPT !.results = Append(@,
                    IF unrenderable(call.analysis)
                    THEN [raised |-> "TypeError", subject |-> <<>>, body |-> <<>>]
                    ELSE format_alert(call.symbol, call.filing, call.analysis))]
    /\ UNCHANGED pipelineVars

FormatNext == FormatAlertCalled

SpecFormat == FormatInit /\ [][FormatNext]_vars

\* ------------------------------------- llm.check_ollama and its entry points

\* What a probe ends in: a response with a status code, or an exception
\* (no connection, a connection that is reset, a timeout).
StatusCodes == {199, 200, 204, 299, 300, 302, 404, 405, 500}
ProbeErrors == {"ConnectionError", "Timeout"}
ProbeOutcomes ==
    [status : StatusCodes, error : {"none"}] \cup [status : {0}, error : ProbeErrors]

\* The entry points that exit with the result of the check:
\* tools/check_ollama.py, and tests/test_ollama.py with --quiet, with --json
\* and without either.
EntryPoints == {"tools", "test_quiet", "test_json", "test_text"}

\* Every response below 400 counts as reachable.
below_400(code) == 200 <= code /\ code < 400

\* llm.py line 266: 200 <= status_code < 300
is_2xx(code) == 200 <= code /\ code < 300

\* sys.exit(0 if result.get("ok") else 2)
exit_code(ok) == IF ok THEN 0 ELSE 2

\* An entry point has called check_ollama: results = {..., "ok": False}.
HealthCalls ==
    { [fn |-> "check_ollama", entry |-> e, pc |-> "get",
       get |-> [status |-> 0, error |-> "pending"],
       post |-> [status |-> 0, error |-> "pending"],
       ok |-> FALSE, exit |-> -1] : e \in EntryPoints }

HealthInit ==
    /\ Idle
    /\ Opened
    /\ recent = NothingPublished
    /\ call \in HealthCalls

\* lines 239-251: the GET probe; what it raises is written to the report.
GetProbe(o) ==
    /\ call.fn = "check_ollama" /\ call.pc = "get"
    /\ call' = [call EXCEPT !.get = o, !.pc = "post"]
    /\ UNCHANGED pipelineVars

\* lines 254-272: the POST probe; ok is set on a 2xx status; what the probe
\* raises is written to the report.
PostProbe(o) ==
    /\ call.fn = "check_ollama" /\ call.pc = "post"
    /\ call' = [call EXCEPT !.post = o, !.pc = "report",
                            !.ok = IF o.error = "none" /\ is_2xx(o.status)
                                   THEN TRUE ELSE @]
    /\ UNCHANGED pipelineVars

\* lines 274-295: the suggestions are added and the report is returned.
ReportReturned ==
    /\ call.fn = "check_ollama" /\ call.pc = "report"
    /\ call' = [call EXCEPT !.pc = "returned"]
    /\ UNCHANGED pipelineVars

\* tools/check_ollama.py lines 21-24, tests/test_ollama.py lines 49-74: the
\* report is printed (unless --quiet) and the process exits.
EntryExits ==
    /\ call.fn = "check_ollama" /\ call.pc = "returned"
    /\ call' = [call EXCEPT !.pc = "exited", !.exit = exit_code(call.ok)]
    /\ UNCHANGED pipelineVars

HealthNext ==
    \/ \E o \in ProbeOutcomes : GetProbe(o)
    \/ \E o \in ProbeOutcomes : PostProbe(o)
    \/ ReportReturned
    \/ EntryExits

SpecHealth == HealthInit /\ [][HealthNext]_vars

\* ------------------------------------------------ llm.analyze_filing alone

\* OLLAMA_CALL_RETRIES (llm.py line 14) is read from the environment, 3 by
\* default; max_attempts = OLLAMA_CALL_RETRIES.
RetryCounts == 0..MaxRetries

\* Every retry waits one second.
WaitFixed(attempt) == 1

\* line 140: wait_time = 1 * attempt
wait_time(attempt) == 1 * attempt

\* What a single-shot request ends in: requests.post or raise_for_status
\* raises a RequestException; r.json() raises and line 124 raises it again;
\* the content parses (line 127 returns); the content is not JSON (line 129
\* raises RuntimeError); there is no content (line 131 breaks); anything
\* else raises (a payload of another shape in _extract_content_from_payload).
AttemptOutcomes ==
    {"request_failed", "body_not_json", "parsed", "content_not_json", "no_content",
     "other_error"}

\* What a line of the streamed response is: empty; not JSON (appended as it
\* is); a chunk with content; a chunk without; a chunk with done set; JSON
\* that is no object, so that chunk.get raises.
LineKinds == {"blank", "raw", "content", "no_content", "done", "not_a_dict"}

\* for attempt in range(1, max_attempts + 1): the body runs only if
\* max_attempts >= 1; otherwise the streaming fallback follows at once.
LoopStart(n) == IF n >= 1 THEN "attempt" ELSE "stream"

\* analyze_filing has been called.  What r.json() raises on a body that is
\* not JSON is a RequestException with some versions of requests (its own
\* JSONDecodeError, from 2.27 on) and a plain ValueError with others; the
\* repository pins no version.
RetryCalls ==
    { [fn |-> "analyze_filing", max_attempts |-> n, json_error_caught |-> b,
       pc |-> LoopStart(n), attempt |-> 1, posts |-> 0, streams |-> 0,
       waits |-> <<>>, lines |-> 0, assembled |-> FALSE, result |-> "pending",
       tried |-> {}, decode_failed |-> FALSE] :
          n \in RetryCounts, b \in BOOLEAN }

RetryInit ==
    /\ Idle
    /\ Opened
    /\ recent = NothingPublished
    /\ call \in RetryCalls

\* The exception leaves analyze_filing.
Raised(c) == [c EXCEPT !.pc = "done", !.result = "error"]

\* return json.loads(...)
Returned(c) == [c EXCEPT !.pc = "done", !.result = "parsed"]

\* lines 95-149: one pass of the retry loop.
AttemptEnds(o) ==
    /\ call.fn = "analyze_filing" /\ call.pc = "attempt"
    /\ LET c == [call EXCEPT
                    !.posts = @ + 1,
                    !.tried = IF o = "request_failed" THEN @ ELSE @ \cup {"single"},
                    !.decode_failed = o \in {"body_not_json", "content_not_json"}]
           caught == \/ o = "request_failed"
                     \/ o = "body_not_json" /\ call.json_error_caught
       IN  call' =
             IF caught
             THEN IF call.attempt < call.max_attempts
                  THEN [c EXCEPT !.waits = Append(@, wait_time(call.attempt)),
                                 !.attempt = @ + 1]
                  ELSE [c EXCEPT !.pc = "stream"]
             ELSE IF o = "parsed" THEN Returned(c)
             ELSE IF o = "no_content" THEN [c EXCEPT !.pc = "stream"]
             ELSE Raised(c)
    /\ UNCHANGED pipelineVars

\* line 156: the streaming request raises; lines 218-223 raise RuntimeError.
StreamPostRaises ==
    /\ call.fn = "analyze_filing" /\ call.pc = "stream"
    /\ call' = Raised([call EXCEPT !.streams = @ + 1, !.tried = @ \cup {"stream"}])
    /\ UNCHANGED pipelineVars

\* line 156: the streaming request is answered.
StreamPostReturns ==
    /\ call.fn = "analyze_filing" /\ call.pc = "stream"
    /\ call' = [call EXCEPT !.streams = @ + 1, !.pc = "lines",
                            !.tried = @ \cup {"stream"}]
    /\ UNCHANGED pipelineVars

\* lines 166-188: one line of the response.
StreamLine(k) ==
    /\ call.fn = "analyze_filing" /\ call.pc = "lines"
    /\ call.lines < MaxLines
    /\ LET c == [call EXCEPT !.lines = @ + 1]
       IN  call' =
             CASE k = "blank" -> c
               [] k = "raw" -> [c EXCEPT !.assembled = TRUE]
               [] k = "content" -> [c EXCEPT !.assembled = TRUE]
               [] k = "no_content" -> c
               [] k = "done" -> [c EXCEPT !.pc = "parse"]
               [] k = "not_a_dict" -> Raised(c)
    /\ UNCHANGED pipelineVars

\* line 166: the response has no further line.
StreamEnds ==
    /\ call.fn = "analyze_filing" /\ call.pc = "lines"
    /\ call' = [call EXCEPT !.pc = "parse"]
    /\ UNCHANGED pipelineVars

\* line 166: reading the response raises (timeout, broken connection).
StreamBreaks ==
    /\ call.fn = "analyze_filing" /\ call.pc = "lines"
    /\ call' = Raised(call)
    /\ UNCHANGED pipelineVars

\* What decoding the assembled text ends in: json.loads(assembled) returns;
\* it raises and the first JSON object found in the text parses; it raises
\* and no object is found or the one found does not parse.
AssembledOutcomes == {"parses", "salvaged", "fails"}

\* lines 190-216: the assembled text is decoded, and scanned for its first
\* JSON object if that fails; without text RuntimeError is raised.
ParseAssembled(o) ==
    /\ call.fn = "analyze_filing" /\ call.pc = "parse"
    /\ call' =
          IF ~call.assembled THEN Raised(call)
          ELSE IF o = "parses" THEN Returned(call)
          ELSE IF o = "salvaged" THEN Returned([call EXCEPT !.tried = @ \cup {"scan"}])
          ELSE Raised([call EXCEPT !.tried = @ \cup {"scan"}])
    /\ UNCHANGED pipelineVars

RetryNext ==
    \/ \E o \in AttemptOutcomes : AttemptEnds(o)
    \/ StreamPostRaises
    \/ StreamPostReturns
    \/ \E k \in LineKinds : StreamLine(k)
    \/ StreamEnds
    \/ StreamBreaks
    \/ \E o \in AssembledOutcomes : ParseAssembled(o)

\* One call of analyze_filing; every request made is answered or fails, and
\* the code goes on whenever it can.
SpecRetry == RetryInit /\ [][RetryNext]_vars /\ WF_vars(RetryNext)

\* ------------------------------------- the end-to-end scenario, then any run

\* The first pass of the run, over the first tracked entity (GEHC, CIK
\* 0001932393): the pass the scenario is about.
InScenario == main_pc = "running" /\ first_pass /\ ent = 1

\* What the collaborators return during that pass: 1000 characters without
\* a boilerplate phrase for either filing; a well-formed assessment with
\* impact_level "High" for acc-2 and "Low" for acc-1.
ScenarioText == [len |-> 1000, phrase |-> "none"]
ScenarioAnalysis(acc) ==
    [impact_level |-> IF acc = 2 THEN "High" ELSE "Low", renderable |-> TRUE]

\* The store is empty and the endpoint lists the two 8-K filings acc-2 and
\* acc-1 for the first entity.
ScenarioInit ==
    /\ Idle
    /\ Opened
    /\ recent = [e \in Entities |-> IF e = 1 THEN <<2, 1>> ELSE <<0>>]
    /\ call = NoCall

\* One run of main(): during the scenario's pass every collaborator answers
\* as the scenario says and the feed stays as it is; after it (the second
\* entity, the later poll cycles of continuous mode) anything may happen.
ScenarioNext ==
    \/ \E po \in BOOLEAN : main_pc = "stopped" /\ MainStart(po)
    \/ Wake
    \/ main_pc # "stopped" /\ ~InScenario /\ Publish
    \/ ~InScenario /\ FetchFilingsRaises
    \/ FetchFilingsReturns
    \/ LoopEnd
    \/ EarlyStop
    \/ LoopNext
    \/ ~InScenario /\ ExtractRaises
    \/ \E t \in Texts : (InScenario => t = ScenarioText) /\ ExtractReturns(t)
    \/ PrefilterRejects
    \/ PrefilterAccepts
    \/ ~InScenario /\ ClassifyFails
    \/ \E a \in Analyses :
           /\ pc = "classify"
           /\ InScenario => a = ScenarioAnalysis(CurAcc)
           /\ ClassifyReturns(a)
    \/ AlertPolicyRaises
    \/ AlertTriggered
    \/ NoAlert
    \/ ~InScenario /\ SendRaises
    \/ SendReturns
    \/ MarkAlertSent
    \/ MarkProcessed

SpecScenario == ScenarioInit /\ [][ScenarioNext]_vars

\* ------------------------------------- passes over a feed that stays as it is

\* The endpoint lists MaxFilings filings for the first entity, newest first.
PassInit ==
    /\ Idle
    /\ Opened
    /\ recent = [e \in Entities |->
                   IF e = 1 THEN [i \in 1..MaxFilings |-> MaxFilings + 1 - i] ELSE <<0>>]
    /\ call = NoCall

\* A step of process_company: a collaborator returns or raises, and the
\* code up to the next call runs.
PassStep ==
    \/ FetchFilingsRaises
    \/ FetchFilingsReturns
    \/ LoopEnd
    \/ EarlyStop
    \/ LoopNext
    \/ ExtractRaises
    \/ \E t \in Texts : ExtractReturns(t)
    \/ PrefilterRejects
    \/ PrefilterAccepts
    \/ ClassifyFails
    \/ \E a \in Analyses : ClassifyReturns(a)
    \/ AlertPolicyRaises
    \/ AlertTriggered
    \/ NoAlert
    \/ SendRaises
    \/ SendReturns
    \/ MarkAlertSent
    \/ MarkProcessed

PassNext ==
    \/ \E po \in BOOLEAN : main_pc = "stopped" /\ MainStart(po)
    \/ Wake
    \/ PassStep

\* One run of main(), single-pass or continuous; every call process_company
\* makes returns or raises, and the code goes on whenever it can.
SpecPass == PassInit /\ [][PassNext]_vars /\ WF_vars(PassStep)

\* --------------------------------------------- runs the user may interrupt

\* KeyboardInterrupt is delivered while the try of lines 163-177 runs, in a
\* pass or in sleep(1800).  No "except Exception" catches it: it leaves
\* process_company and main() through finally, which closes the store.
Interrupt ==
    /\ main_pc \in {"running", "sleeping"}
    /\ main_pc' = "interrupted"
    /\ pc' = "none"
    /\ Finally
    /\ pass_result' = IF pass_result = "running" THEN "interrupted" ELSE pass_result
    /\ text' = NoText /\ analysis' = NoAnalysis
    /\ UNCHANGED <<check_failed, call>>
    /\ UNCHANGED <<storeVars, storeCallVars, recent, poll_once, first_pass, ent,
                   attempted, filings, idx, callVars, first_seen, pass_extract,
                   pass_classify, pass_send, pass_extract_failed,
                   pass_classify_failed, pass_send_failed, skipped, retry_due,
                   pass_outcome>>

\* main(poll_once) is started and KeyboardInterrupt is delivered during
\* check_ollama (lines 143-161), whose "except Exception" does not catch
\* it: it leaves main() before the try of line 163 is entered.
InterruptInCheck(po) ==
    /\ main_pc \in {"stopped", "exited", "raised", "interrupted"}
    /\ main_pc' = "interrupted"
    /\ poll_once' = po
    /\ check_failed' = FALSE
    /\ first_pass' = TRUE
    /\ ent' = 1
    /\ attempted' = {}
    /\ pc' = "none"
    /\ PassForgotten
    /\ conn' = "open" /\ closes' = 0
    /\ UNCHANGED call
    /\ UNCHANGED <<storeVars, storeCallVars, recent, text, analysis, callVars, skipped>>

StopNext ==
    \/ \E po \in BOOLEAN : MainStart(po)
    \/ \E po \in BOOLEAN : InterruptInCheck(po)
    \/ Wake
    \/ Interrupt
    \/ PassStep

\* Repeated runs of main() over a feed of two filings that stays as it is;
\* the user may interrupt a run at any point.
SpecStop == ScenarioInit /\ [][StopNext]_vars

\* ------------------------------------------------------------------ claims

\* C1: is_processed(x) is false until the first mark_processed(x, ...) and
\* true after it; however often mark_processed(x, ...) is called there is
\* exactly one ProcessedRecord for x, and no call raises.
C1_IdempotentDedupe ==
    /\ store_error = "none"
    /\ \A x \in StoreIds :
          /\ is_processed(x) <=> x \in marked
          /\ Cardinality(RowsFor(processed_filings, x)) = (IF x \in marked THEN 1 ELSE 0)

\* mark_processed has been called twice for one id and not yet for another.
C1_Witness ==
    \E x, y \in StoreIds :
        /\ x \in remarked /\ is_processed(x)
        /\ y \notin marked /\ ~is_processed(y)

\* C2: has_alert(x) is false until the first mark_alert_sent(x, ...) and true
\* after it; however often mark_alert_sent(x, ...) is called there is exactly
\* one AlertRecord for x, and no call raises.
C2_AlertIdempotence ==
    /\ store_error = "none"
    /\ \A x \in StoreIds :
          /\ has_alert(x) <=> x \in alerted
          /\ Cardinality(RowsFor(alerts_sent, x)) = (IF x \in alerted THEN 1 ELSE 0)

\* mark_alert_sent has been called twice for one id and not yet for another.
C2_Witness ==
    \E x, y \in StoreIds :
        /\ x \in realerted /\ has_alert(x)
        /\ y \notin alerted /\ ~has_alert(y)

\* The positions of process_company at which a filing is being handled.
Handling == {"extract", "prefilter", "classify", "decide", "send", "mark_alert", "mark"}

\* The pass has made up its mind about the filing at index j: it has gone
\* past it, is handling it, or has stopped at it.
Decided(j) == idx > j \/ (idx = j /\ pc \notin {"loop", "extract"})

\* C3: across polls the Classifier and the Notifier are invoked at most once
\* per filing id, and no filing that has a ProcessedRecord is handled again.
C3_AtMostOnce ==
    /\ reclassified = {}
    /\ resent = {}
    /\ pc \in Handling => ~is_processed(CurAcc)

\* C4: in a pass over a feed whose first already processed filing is at
\* index k, no collaborator is invoked for a filing at an index > k, and when
\* the pass is over the Extractor has been invoked for every index < k.
C4_EarlyStop ==
    first_seen <= Len(filings) =>
        \A i \in 1..Len(filings) :
            /\ i > first_seen =>
                   filings[i].accession_number
                       \notin (pass_extract \cup pass_classify \cup pass_send)
            /\ (i < first_seen /\ pass_result \in {"returned", "raised"}) =>
                   filings[i].accession_number \in pass_extract

\* C5: a filing whose extraction fails gets no ProcessedRecord in that pass,
\* and the next pass over a feed that still holds it invokes the Extractor
\* for it again.  (Stated for the passes that return; a pass that an
\* exception ends is left out.)
C5_RetryNextPoll ==
    /\ \A x \in pass_extract_failed : ~is_processed(x)
    /\ pass_result = "returned" => retry_due \subseteq pass_extract

\* C6: whenever the loop hits a filing that is already processed, every
\* older filing of the list is processed too.
C6_ProcessedSuffix ==
    (pc = "loop" /\ idx <= Len(filings) /\ is_processed(CurAcc)) =>
        \A j \in (idx + 1)..Len(filings) : is_processed(filings[j].accession_number)

C8_EntityIsolation ==
    /\ main_pc # "raised"
    /\ main_pc \in {"sleeping", "exited"} => attempted = Entities

\* C9: a filing whose classification failed is marked processed, with no
\* notification and no AlertRecord, and the loop goes on to the next filing:
\* unless that one was processed already, its extraction is invoked.
C9_ClassifierFailureIsolated ==
    \A i \in 1..Len(filings) :
        filings[i].accession_number \in pass_classify_failed =>
            /\ is_processed(filings[i].accession_number)
            /\ filings[i].accession_number \notin pass_send
            /\ ~has_alert(filings[i].accession_number)
            /\ idx > i
            /\ (i < Len(filings) /\ Decided(i + 1)) =>
                   \/ filings[i + 1].accession_number \in pass_extract
                   \/ first_seen = i + 1

\* The classification of one filing failed and the next one was extracted.
C9_Witness ==
    \E i \in 1..(Len(filings) - 1) :
        /\ filings[i].accession_number \in pass_classify_failed
        /\ filings[i + 1].accession_number \in pass_extract

\* C10: a filing whose notification failed has no AlertRecord, is marked
\* processed before the loop leaves it, does not end the pass, and is never
\* sent again.
C10_SendFailureIsolated ==
    /\ \A x \in send_failed :
          /\ ~has_alert(x)
          /\ x \notin resent
          /\ \/ is_processed(x)
             \/ main_pc = "running" /\ pc = "mark" /\ CurAcc = x
    /\ \A i \in 1..Len(filings) :
          filings[i].accession_number \in pass_send_failed =>
              \/ idx > i
              \/ main_pc = "running" /\ pc = "mark" /\ idx = i

\* A later pass over a feed that holds a filing whose notification failed
\* in an earlier pass has returned.
C10_Witness ==
    \E x \in send_failed :
        /\ x \in AccsOf(filings) /\ x \notin pass_send_failed
        /\ pass_result = "returned"
        /\ is_processed(x)

\* The outcomes the pass has reached for the filing x: skipped (extraction
\* failed), rejected by the prefilter, classification failed, classified and
\* not alerted (no alert was due, or its delivery failed), alerted (the
\* notification was delivered).
Outcomes(x) ==
    (IF x \in pass_extract_failed THEN {"skipped"} ELSE {})
    \cup (IF x \in pass_outcome.rejected THEN {"rejected"} ELSE {})
    \cup (IF x \in pass_classify_failed THEN {"classify_failed"} ELSE {})
    \cup (IF x \in pass_outcome.no_alert \cup pass_send_failed
          THEN {"not_alerted"} ELSE {})
    \cup (IF x \in pass_send \ pass_send_failed THEN {"alerted"} ELSE {})

\* The pass has taken up the filing at index i and is done with it: the loop
\* has gone past it, or the pass ended while handling it.
Left(i) ==
    /\ filings[i].accession_number \in pass_extract
    /\ \/ idx > i
       \/ idx = i /\ pass_result \in {"returned", "raised"}

\* C11: a filing the pass is done with has exactly one of the five outcomes;
\* unless that is skipped, mark_processed was called for it in the pass and
\* it has a ProcessedRecord; a skipped filing has none; mark_alert_sent was
\* called in the pass only for filings whose outcome is alerted.
C11_OneOutcome ==
    /\ \A i \in 1..Len(filings) :
          Left(i) =>
              LET x == filings[i].accession_number
              IN  /\ Cardinality(Outcomes(x)) = 1
                  /\ Outcomes(x) # {"skipped"} =>
                         x \in pass_outcome.marked /\ is_processed(x)
                  /\ Outcomes(x) = {"skipped"} =>
                         x \notin pass_outcome.marked /\ ~is_processed(x)
                  /\ Outcomes(x) = {"alerted"} => has_alert(x)
    /\ \A x \in pass_outcome.alert_recorded : Outcomes(x) = {"alerted"}

\* C12: send_email is invoked for a filing only if, in the same pass, its
\* extraction returned, the prefilter accepted its text, analyze_filing
\* returned, and should_alert was true and has_alert false at line 112;
\* mark_alert_sent is invoked only after send_email has returned.
C12_SendOnlyIfDue ==
    /\ \A x \in pass_send :
          /\ x \in pass_extract \ pass_extract_failed
          /\ x \in pass_outcome.accepted \ pass_outcome.rejected
          /\ x \in pass_classify \ pass_classify_failed
          /\ x \in pass_outcome.alert_due
    /\ (main_pc = "running" /\ pc = "send") =>
          /\ ~should_alert_raises(analysis) /\ should_alert(analysis)
          /\ ~has_alert(CurAcc)
    /\ (main_pc = "running" /\ pc = "mark_alert") =>
          CurAcc \in pass_send \ pass_send_failed
    /\ \A x \in pass_outcome.alert_recorded : x \in pass_send \ pass_send_failed

\* In one pass an alert was sent and recorded for one filing, and another
\* was classified without an alert being due.
C12_Witness ==
    \E x \in pass_outcome.alert_recorded, y \in pass_outcome.no_alert :
        /\ x \in pass_send /\ y \notin pass_send
        /\ has_alert(x) /\ ~has_alert(y)

\* The current pass is over a feed whose newest filing had a ProcessedRecord
\* when the pass began.
NewestProcessed ==
    /\ pass_result \in {"running", "returned", "raised"}
    /\ Len(filings) >= 1
    /\ first_seen = 1

\* C13: a pass over a feed whose newest filing is already processed invokes
\* neither extract_text nor analyze_filing nor send_email, calls neither
\* mark_processed nor mark_alert_sent, returns, and no step of it changes
\* either table.
C13_NothingToDo ==
    /\ [](NewestProcessed =>
              /\ pass_extract = {} /\ pass_classify = {} /\ pass_send = {}
              /\ pass_outcome.marked = {} /\ pass_outcome.alert_recorded = {}
              /\ pass_result # "raised")
    /\ [][(NewestProcessed /\ pass_result = "running") =>
              UNCHANGED <<processed_filings, alerts_sent>>]_vars

\* A pass over a feed of two filings, both already processed, has returned.
C13_Witness ==
    /\ NewestProcessed /\ pass_result = "returned"
    /\ Len(filings) >= 2
    /\ \A i \in 1..Len(filings) : is_processed(filings[i].accession_number)

\* The scenario's pass is over: the first pass has gone on to the second
\* tracked entity and has not read its feed yet.
ScenarioOver == main_pc = "running" /\ first_pass /\ ent = 2 /\ pc = "fetch"

\* The ids of the rows of a table.
IdsOf(table) == { table[i].accession_number : i \in 1..Len(table) }

\* C14: from an empty store, with threshold Medium, the pass over the two
\* 8-K filings [acc-2, acc-1], 1000 characters of text each, classified High
\* and Low, returns with one notification sent (for acc-2), two
\* ProcessedRecords (acc-2, acc-1) and one AlertRecord (for acc-2).
C14_EndToEnd ==
    /\ InScenario => sent \subseteq {2}
    /\ ScenarioOver =>
          /\ pass_result = "returned"
          /\ sent = {2} /\ resent = {} /\ send_failed = {}
          /\ Len(processed_filings) = 2 /\ IdsOf(processed_filings) = {1, 2}
          /\ Len(alerts_sent) = 1 /\ IdsOf(alerts_sent) = {2}
          /\ alerts_sent[1].impact_level = "High"

\* The scenario's pass is over and has handled both filings.
C14_Witness ==
    /\ ScenarioOver
    /\ pass_extract = {1, 2} /\ pass_classify = {1, 2}
    /\ has_alert(2) /\ is_processed(1)

\* The order None < Low < Medium < High; any other level, and a missing one,
\* ranks as None.
ClaimedRank(level) ==
    CASE level = "Low" -> 1 [] level = "Medium" -> 2 [] level = "High" -> 3
      [] OTHER -> 0

\* C15: should_alert returns true iff the rank of the assessment's level is
\* at least the rank of the minimum, Medium: exactly for High and Medium.
C15_RankAtLeastMinimum ==
    (call.fn = "should_alert" /\ call.result # "pending") =>
        /\ call.result = "true" <=>
               ClaimedRank(call.analysis.impact_level) >= ClaimedRank("Medium")
        /\ call.result = "true" <=> call.analysis.impact_level \in {"High", "Medium"}

\* should_alert has returned true for a level that equals the minimum.
C15_Witness ==
    /\ call.fn = "should_alert" /\ call.result = "true"
    /\ call.analysis.impact_level = "Medium"

\* The minimum length of a form name: the table's, 1500 for a name it lacks.
ClaimedMin(name) ==
    IF name \in DOMAIN FORM_MIN_CHARS THEN FORM_MIN_CHARS[name] ELSE 1500

\* C16: the prefilter accepts iff the text is not empty, is at least as long
\* as the minimum of its form name (however the name is cased or padded),
\* and holds no boilerplate phrase in any case.
C16_PrefilterAccepts ==
    (call.fn = "prefilter" /\ call.result # "pending") =>
        /\ call.result = "true" <=>
               /\ call.text.len > 0
               /\ call.text.len >= ClaimedMin(call.form.name)
               /\ call.text.phrase = "none"
        /\ call.text.phrase # "none" => call.result = "false"

\* A text of exactly the minimum length was accepted for a form written in
\* lower case with blanks around it.
C16_Witness ==
    /\ call.fn = "prefilter" /\ call.result = "true"
    /\ call.form.lowered /\ call.form.padded
    /\ call.text.len = ClaimedMin(call.form.name)

\* The row processed_filings holds for the id of the row r, if it holds one.
Stored(r) ==
    { processed_filings[i] : i \in RowsFor(processed_filings, r.accession_number) }

\* C17: no call updates or deletes a row of processed_filings: every row
\* stays what it is and where it is, also when mark_processed is called for
\* its id with other values; is_processed never goes back to false;
\* mark_alert_sent leaves processed_filings as it is and mark_processed
\* leaves alerts_sent as it is.
C17_ProcessedRowsImmutable ==
    [][/\ Len(processed_filings') >= Len(processed_filings)
       /\ \A i \in 1..Len(processed_filings) :
              processed_filings'[i] = processed_filings[i]
       /\ \A x \in RowIds :
              RowsFor(processed_filings, x) # {} => RowsFor(processed_filings', x) # {}
       /\ call'.fn = "mark_alert_sent" => processed_filings' = processed_filings
       /\ call'.fn = "mark_processed" => alerts_sent' = alerts_sent]_vars

\* The last call was mark_processed for an id whose stored row has other
\* values than the call passed, and that id has an AlertRecord too.
C17_Witness ==
    /\ call.fn = "mark_processed"
    /\ Stored(call.row) # {} /\ call.row \notin Stored(call.row)
    /\ has_alert(call.row.accession_number)

\* C18: a filing whose classifier output did not parse counts as a failed
\* classification: no notification, no AlertRecord, mark_processed at once.
\* A filing whose output parsed but lacks impact_level gets level "None", of
\* the lowest rank: no alert is due, nothing is sent, nothing raises, and
\* the loop leaves it only after mark_processed.
C18_UnparsedOrNoLevel ==
    /\ \A i \in 1..Len(filings) :
          LET x == filings[i].accession_number
          IN  /\ x \in pass_outcome.unparsed =>
                     /\ x \in pass_classify_failed
                     /\ x \notin pass_send /\ ~has_alert(x)
                     /\ x \in pass_outcome.marked /\ is_processed(x)
                     /\ idx > i
              /\ x \in pass_outcome.no_level =>
                     /\ x \notin pass_classify_failed
                     /\ x \notin pass_outcome.alert_due \cup pass_outcome.raised
                     /\ x \notin pass_send /\ ~has_alert(x)
                     /\ idx > i => x \in pass_outcome.marked /\ is_processed(x)
                     /\ idx = i => pass_result = "running" /\ pc \in {"decide", "mark"}
    /\ (main_pc = "running" /\ pc = "decide" /\ analysis.impact_level = "MISSING") =>
          /\ LevelOf(analysis) = "None"
          /\ \A l \in DOMAIN IMPACT_RANK : RankOf(LevelOf(analysis), 0) <= IMPACT_RANK[l]
          /\ RankOf(LevelOf(analysis), 0) < RankOf(ALERT_MIN_IMPACT, 2)
          /\ ~AlertDue

\* In one pass the output for one filing did not parse, the output for
\* another had no impact_level, the loop is past both and the pass returned.
C18_Witness ==
    /\ pass_result = "returned"
    /\ \E x \in pass_outcome.unparsed, y \in pass_outcome.no_level :
           /\ x # y
           /\ {x, y} \subseteq pass_outcome.marked
           /\ is_processed(x) /\ is_processed(y)

\* C19: a single-pass run of main() never ends in an exception and never
\* sleeps, whatever the health check said and whatever fails in the passes;
\* it calls process_company for the tracked entities one after the other,
\* once each, and when it has returned every entity has had its pass.
C19_SinglePassExitsZero ==
    /\ [](poll_once =>
             /\ main_pc \notin {"raised", "sleeping"}
             /\ first_pass
             /\ main_pc = "running" => attempted = 1..ent
             /\ main_pc = "exited" => attempted = Entities /\ pc = "none")
    /\ [][(poll_once /\ main_pc = "running") =>
              /\ poll_once'
              /\ main_pc' \in {"running", "exited"}
              /\ ent' \in {ent, ent + 1}
              /\ main_pc' = "exited" => ent = Len(TRACKED_COMPANIES)
              /\ (pc # "fetch" /\ pc' = "fetch") => ent' = ent + 1]_vars

\* A single-pass run whose health check failed has returned after a pass in
\* which the extraction of the newest filing failed, a notification for the
\* next one failed and the classification of the oldest failed: the newest
\* has no ProcessedRecord, the two others have one, no alert is recorded.
C19_Witness ==
    /\ poll_once /\ check_failed /\ main_pc = "exited"
    /\ attempted = Entities
    /\ \E x \in skipped[1], y \in send_failed, z \in classified \ sent :
           /\ x > y /\ y > z
           /\ ~is_processed(x) /\ is_processed(y) /\ is_processed(z)
           /\ recent[1] = <<x, y, z>>
    /\ alerts_sent = <<>>

\* C20: analyze_filing makes at most max_attempts single-shot requests and
\* at most one streaming request; the k-th wait lasts k seconds, so the
\* waits grow strictly; a wait lies between any two consecutive attempts and
\* none follows the last one; the call ends, with a parsed result or an
\* error.
C20_BoundedRetry ==
    /\ [](/\ call.posts <= call.max_attempts
          /\ call.streams <= 1
          /\ \A i \in 1..Len(call.waits) : call.waits[i] = i
          /\ \A i \in 1..(Len(call.waits) - 1) : call.waits[i] < call.waits[i + 1]
          /\ call.pc = "attempt" => Len(call.waits) = call.posts
          /\ (call.pc # "attempt" /\ call.posts >= 1) =>
                 Len(call.waits) = call.posts - 1
          /\ call.posts = 0 => call.waits = <<>>
          /\ call.pc = "done" <=> call.result \in {"parsed", "error"})
    /\ <>(call.pc = "done")

\* Every single-shot attempt of three failed, with waits of 1 and 2
\* seconds, and the streamed response parsed.
C20_Witness ==
    /\ call.fn = "analyze_filing" /\ call.pc = "done" /\ call.result = "parsed"
    /\ call.max_attempts = 3 /\ call.posts = 3
    /\ call.waits = <<1, 2>>
    /\ call.streams = 1 /\ call.assembled

\* C21: Storage.close never raises, whatever the state of the store and
\* also when closing the connection raises; it leaves both tables as they
\* are; a call that follows an earlier call changes nothing at all.
C21_CloseIsSafe ==
    /\ [](call.fn = "close" => call.raised = "none")
    /\ [][closes' = closes + 1 =>
              /\ call'.fn = "close" /\ call'.raised = "none"
              /\ UNCHANGED <<processed_filings, alerts_sent>>
              /\ closes >= 1 => conn' = conn]_vars

\* close() has been called twice on a store that holds a row in either
\* table and whose connection raises when closed.
C21_Witness ==
    /\ call.fn = "close" /\ closes >= 2
    /\ conn = "broken"
    /\ processed_filings # <<>> /\ alerts_sent # <<>>

\* The bullets of a body: what its lines that start with "- " hold, in order.
BulletsOf(body) ==
    LET ls == SelectSeq(body, LAMBDA l : l[1] = "- ")
    IN  [i \in 1..Len(ls) |-> ls[i][2]]

\* C22: format_alert changes nothing but its result, and a second call
\* with the same arguments gives the same result; a body it returns names
\* the event type and the impact level, holds the first min(5, n) of the n
\* summary bullets in their order and no other bullet, and ends with the
\* reasoning text as it was given.
C22_FormatAlert ==
    /\ [](\A k \in 1..Len(call.results) :
            LET r == call.results[k]
                a == call.analysis
                n == Len(a.summary_bullets.items)
                m == IF n < 5 THEN n ELSE 5
            IN  /\ r = call.results[1]
                /\ r.raised = "none" =>
                      /\ a.event_type # "MISSING" =>
                            \E i \in 1..Len(r.body) : r.body[i] = <<"Event: ", a.event_type>>
                      /\ a.impact_level # "MISSING" =>
                            \E i \in 1..Len(r.body) : r.body[i] = <<"Impact: ", a.impact_level>>
                      /\ Len(BulletsOf(r.body)) = m
                      /\ \A i \in 1..m : BulletsOf(r.body)[i] = a.summary_bullets.items[i]
                      /\ a.impact_reasoning # "MISSING" =>
                            r.body[Len(r.body)] = <<a.impact_reasoning>>)
    /\ [][UNCHANGED pipelineVars]_vars

\* format_alert was called twice on an assessment with six bullets in
\* falling order and returned a body with five.
C22_Witness ==
    /\ Len(call.results) = 2
    /\ call.results[2].raised = "none"
    /\ call.analysis.summary_bullets.items = <<"6", "5", "4", "3", "2", "1">>
    /\ BulletsOf(call.results[2].body) = <<"6", "5", "4", "3", "2">>
    /\ call.analysis.impact_reasoning = "because"

C24_DecodeStages ==
    /\ "scan" \in call.tried => "stream" \in call.tried
    /\ (call.pc = "done" /\ call.decode_failed) => "stream" \in call.tried
    /\ (call.pc = "done" /\ call.result = "error" /\ "single" \in call.tried) =>
          "stream" \in call.tried

\* The filings of the feed the loop has gone past.
Passed == { filings[j].accession_number : j \in 1..(idx - 1) }

\* C25: a pass that has begun ends, by returning or by raising; while it
\* runs the loop keeps its list and moves from a filing only to the next
\* one; no id is listed twice; every call of the pass was made for a filing
\* up to the current one, and every filing the loop has gone past either
\* failed extraction or had its mark_processed called.
C25_PassTerminates ==
    /\ (pass_result = "running") ~> (pass_result # "running")
    /\ [](pass_result = "running" =>
             /\ \A i, j \in 1..Len(filings) :
                    filings[i].accession_number = filings[j].accession_number => i = j
             /\ idx \in 1..(Len(filings) + 1)
             /\ pass_extract \cup pass_classify \cup pass_send \cup pass_outcome.marked
                    \subseteq Passed \cup (IF idx <= Len(filings) THEN {CurAcc} ELSE {})
             /\ Passed \subseteq pass_extract
             /\ Passed \subseteq pass_extract_failed \cup pass_outcome.marked)
    /\ [][(pass_result = "running" /\ pass_result' = "running") =>
              /\ filings' = filings
              /\ idx' \in {idx, idx + 1}
              /\ idx' = idx + 1 => pc' = "loop"]_vars

\* A pass over three filings has returned: the extraction of one failed,
\* the classification of another failed, the third was sent and recorded.
C25_Witness ==
    /\ pass_result = "returned" /\ Len(filings) = 3 /\ idx = 4
    /\ pass_extract_failed # {}
    /\ pass_classify_failed # {}
    /\ pass_outcome.alert_recorded # {}

\* The filing x had an AlertRecord and no ProcessedRecord when the current
\* pass began: its alert was not recorded in this pass, and it is still
\* unprocessed or this pass called mark_processed for it.
Orphan(x) ==
    /\ has_alert(x) /\ x \notin pass_outcome.alert_recorded
    /\ ~is_processed(x) \/ x \in pass_outcome.marked

\* C26: in a pass over a filing that had an AlertRecord and no
\* ProcessedRecord when the pass began, send_email is not called for it,
\* and once analyze_filing was called for it and the pass is done with it
\* (the loop went past it, or the pass returned or raised at it) the filing
\* has a ProcessedRecord.
C26_OrphanAlert ==
    \A i \in 1..Len(filings) :
        LET x == filings[i].accession_number
        IN  Orphan(x) =>
              /\ x \notin pass_send
              /\ (/\ x \in pass_classify
                  /\ \/ idx > i
                     \/ idx = i /\ pass_result \in {"returned", "raised"}) =>
                    is_processed(x)

\* C27: whenever main() has ended (the single pass is over, an exception
\* left the polling loop, the user interrupted the run) Storage.close has
\* been called exactly once and the connection is closed; as long as main()
\* runs or sleeps close has not been called, so every query and insert of
\* a pass is made on the open connection; once the connection is closed
\* the run is at no step of process_company, the only caller of the store's
\* queries and inserts.
C27_ClosedOnceOnExit ==
    /\ main_pc \in {"exited", "raised", "interrupted"} =>
          closes = 1 /\ conn = "closed"
    /\ main_pc \in {"running", "sleeping"} => closes = 0 /\ conn = "open"
    /\ conn = "closed" => pc = "none" /\ main_pc \notin {"running", "sleeping"}

\* The calls of fn issued so far, by any caller.
CallsOf(fn) == { i \in 1..Len(call.called) : call.called[i].fn = fn }

\* Every caller has left the filing.
AllDone == \A c \in Callers : call.at[c] = "done"

\* C28: however the is_processed and has_alert reads, the INSERTs and the
\* commits of the callers of one filing id interleave, neither table ever
\* holds two rows for the id and no caller's store call raises; each table
\* holds a row for the id as soon as a mark call for it was executed, also
\* when several callers had read that there was none, and the row is the one
\* the first of these calls wrote; when every caller is done each table the
\* callers wrote to holds exactly one row for the id, and it is committed.
C28_OneRowUnderRace ==
    /\ Cardinality(RowsFor(processed_filings, 1)) <= 1
    /\ Cardinality(RowsFor(alerts_sent, 1)) <= 1
    /\ \A c \in Callers : call.error[c] = "none"
    /\ store_error = "none"
    /\ CallsOf("mark_processed") # {} =>
          /\ Cardinality(RowsFor(processed_filings, 1)) = 1
          /\ LET first == CHOOSE i \in CallsOf("mark_processed") :
                              \A j \in CallsOf("mark_processed") : i <= j
             IN  processed_filings[1].filing_date = call.called[first].by
    /\ CallsOf("mark_alert_sent") # {} =>
          /\ Cardinality(RowsFor(alerts_sent, 1)) = 1
          /\ LET first == CHOOSE i \in CallsOf("mark_alert_sent") :
                              \A j \in CallsOf("mark_alert_sent") : i <= j
             IN  alerts_sent[1].impact_level =
                     IF call.called[first].by = 1 THEN "High" ELSE "Medium"
    /\ AllDone =>
          /\ Cardinality(RowsFor(processed_filings, 1)) = 1
          /\ ~call.in_transaction
          /\ call.committed = [processed_filings |-> processed_filings,
                               alerts_sent |-> alerts_sent]

\* Both callers read that the filing had neither record, both then called
\* mark_alert_sent and mark_processed, and both are done.
C28_Witness ==
    /\ AllDone
    /\ \A c \in Callers : ~call.saw_processed[c] /\ call.alerts[c] /\ ~call.saw_alert[c]
    /\ Cardinality(CallsOf("mark_processed")) = MaxCallers
    /\ Cardinality(CallsOf("mark_alert_sent")) = MaxCallers
    /\ Cardinality(RowsFor(processed_filings, 1)) = 1
    /\ Cardinality(RowsFor(alerts_sent, 1)) = 1

====
